---- MODULE Spec2Model ----
(***************************************************************************)
(* FSStorage (src/index.js): a key-value adapter that keeps one encrypted  *)
(* file per key under a base folder.  The encryption key is cached in a    *)
(* module-level variable and persisted in the secure store.                *)
(*                                                                         *)
(* Strings are sequences of one-character strings, so that resolvePath,    *)
(* encodeURIComponent and decodeURIComponent are computed, not assumed.    *)
(* One action is one resumption of an async function: the completion of    *)
(* the native call it awaits, followed by the synchronous code up to the   *)
(* next await (or to the settling of the promise).                         *)
(***************************************************************************)
EXTENDS Naturals, Sequences, FiniteSets

VARIABLES encryptionKey, secret, nextUuid, dirs, files, calls, written

vars == <<encryptionKey, secret, nextUuid, dirs, files, calls, written>>

(* ------------------------------ bounds -------------------------------- *)

\* Number of uuidv4() results available to a run.
MaxUuid == 3
\* Number of calls that may be in flight at the same time.
NumCalls == 2

Procs == 1..NumCalls

(* ------------------------------ strings ------------------------------- *)

Null == 0

KeyA == <<"a">>
KeyB == <<"b">>
KeySlash == <<"a", "/", "b">>
KeyQuery == <<"x", "?", "y">>
KeyEmpty == <<>>
KeyDot == <<".">>
KeyDotDot == <<".", ".">>

Val1 == <<"1">>
Val2 == <<"2">>

AllKeys == {KeyA, KeyB, KeySlash, KeyQuery, KeyEmpty, KeyDot, KeyDotDot}

\* FileSystem.documentDirectory: a directory uri with a trailing separator.
DocumentDir == <<"d", "/">>

Handles == {1, 2}

\* The arguments handle h was constructed with: FSStorage() and
\* FSStorage(DocumentDir, 's').
Location(h) == DocumentDir
Folder(h) == IF h = 1 THEN <<"r">> ELSE <<"s">>

RECURSIVE Join(_)
Join(parts) ==
  IF parts = <<>> THEN <<>>
  ELSE IF Len(parts) = 1 THEN parts[1]
  ELSE parts[1] \o <<"/">> \o Join(Tail(parts))

RECURSIVE SplitRec(_, _)
SplitRec(s, cur) ==
  IF s = <<>> THEN <<cur>>
  ELSE IF Head(s) = "/" THEN <<cur>> \o SplitRec(Tail(s), <<>>)
  ELSE SplitRec(Tail(s), Append(cur, Head(s)))

Split(s) == SplitRec(s, <<>>)

KeepPart(part) == part # <<>> /\ part # <<".">>

resolvePath(paths) == Join(SelectSeq(Split(Join(paths)), KeepPart))

\* Characters encodeURIComponent leaves alone.
Unreserved == {"a", "b", "d", "r", "s", "x", "y", "1", "2", "."}

Escape(c) ==
  CASE c = "/" -> <<"%", "2", "F">>
    [] c = "?" -> <<"%", "3", "F">>
    [] c = "%" -> <<"%", "2", "5">>
    [] OTHER -> <<"%", "0", "0">>

RECURSIVE encodeURIComponent(_)
encodeURIComponent(s) ==
  IF s = <<>> THEN <<>>
  ELSE (IF Head(s) \in Unreserved THEN <<Head(s)>> ELSE Escape(Head(s)))
       \o encodeURIComponent(Tail(s))

Unescape(hi, lo) ==
  CASE hi = "2" /\ lo = "F" -> "/"
    [] hi = "3" /\ lo = "F" -> "?"
    [] hi = "2" /\ lo = "5" -> "%"
    [] OTHER -> "\\0"

\* decodeURIComponent: [ok, v]; ok is FALSE for a malformed escape (URIError).
RECURSIVE decodeURIComponent(_)
decodeURIComponent(s) ==
  IF s = <<>> THEN [ok |-> TRUE, v |-> <<>>]
  ELSE IF Head(s) = "%"
    THEN IF Len(s) < 3 THEN [ok |-> FALSE, v |-> <<>>]
         ELSE LET rest == decodeURIComponent(SubSeq(s, 4, Len(s)))
              IN [ok |-> rest.ok, v |-> <<Unescape(s[2], s[3])>> \o rest.v]
    ELSE LET rest == decodeURIComponent(Tail(s))
         IN [ok |-> rest.ok, v |-> <<Head(s)>> \o rest.v]

baseFolder(h) == resolvePath(<<Location(h), Folder(h)>>)

pathForKey(h, key) == resolvePath(<<baseFolder(h), encodeURIComponent(key)>>)

(* ---------------------------- file system ----------------------------- *)

IsDir(n) == n = <<>> \/ n \in dirs

IsFile(n) == n \in DOMAIN files

\* What no path names: the result of resolving a path through a missing
\* directory.  It is neither a file nor a directory, and neither is its
\* parent.
NoNode == <<<<>>, <<>>>>

\* The provider resolves a path string to the node it names, as the
\* operating system does: it splits on the separator, skips "" and ".",
\* and follows ".." from a directory that exists.
RECURSIVE CanonRec(_, _)
CanonRec(segs, acc) ==
  IF segs = <<>> THEN acc
  ELSE IF Head(segs) = <<>> \/ Head(segs) = <<".">> THEN CanonRec(Tail(segs), acc)
  ELSE IF Head(segs) = <<".", ".">>
    THEN IF ~IsDir(acc) THEN NoNode
         ELSE CanonRec(Tail(segs),
                       IF acc = <<>> THEN acc ELSE SubSeq(acc, 1, Len(acc) - 1))
  ELSE CanonRec(Tail(segs), Append(acc, Head(segs)))

FsNode(path) == CanonRec(Split(path), <<>>)

IsPrefix(a, b) == Len(a) <= Len(b) /\ SubSeq(b, 1, Len(a)) = a

Prefixes(n) == {SubSeq(n, 1, i) : i \in 1..Len(n)}

Parent(n) == SubSeq(n, 1, Len(n) - 1)

\* getInfoAsync(path).exists
FsExists(path) == IsDir(FsNode(path)) \/ IsFile(FsNode(path))

\* makeDirectoryAsync(path, {intermediates: true})
MkdirOk(path) == \A q \in Prefixes(FsNode(path)) : ~IsFile(q)
MkdirDirs(path) == dirs \cup Prefixes(FsNode(path))

\* writeAsStringAsync(path, content)
WriteOk(path) ==
  LET n == FsNode(path) IN n # <<>> /\ ~IsDir(n) /\ IsDir(Parent(n))
\* WriteFiles that leaves the new file as the only one on the disk.
WriteFilesAlone(path, content) ==
  LET n == FsNode(path) IN [q \in {n} |-> content]

WriteFiles(path, content) ==
  LET n == FsNode(path)
  IN [q \in (DOMAIN files) \cup {n} |-> IF q = n THEN content ELSE files[q]]

\* readAsStringAsync(path)
ReadOk(path) == IsFile(FsNode(path))
ReadContent(path) == files[FsNode(path)]

\* deleteAsync(path, {idempotent: true}): a file, or a directory with all
\* it holds; nothing at the path is no error.
DeleteDirs(path) == {q \in dirs : ~IsPrefix(FsNode(path), q)}
DeleteFiles(path) ==
  [q \in {f \in DOMAIN files : ~IsPrefix(FsNode(path), f)} |-> files[q]]

\* readDirectoryAsync(path): the names of the directory's immediate entries.
ReadDirOk(path) == IsDir(FsNode(path))
ReadDir(path) ==
  LET n == FsNode(path)
  IN {q[Len(q)] : q \in {e \in dirs \cup DOMAIN files :
                           Len(e) = Len(n) + 1 /\ IsPrefix(n, e)}}

(* ------------------------------ cipher -------------------------------- *)

NoCt == [pt |-> <<>>, k |-> Null]

\* AES.encrypt(value, secretKey).toString()
Encrypt(value, k) == [pt |-> value, k |-> k]

Malformed == <<"Malformed UTF-8 data">>
DefaultDecrypted == <<"{", "}">>

\* AES.decrypt(ct, k).toString(Utf8): the plaintext under the key that
\* encrypted ct.  Under any other key the bytes are garbage: the decode
\* step either throws or yields the empty text (d chooses).
Decrypt(ct, k, d) ==
  IF ct.k = k THEN [t |-> "str", v |-> ct.pt]
  ELSE IF d = "throw" THEN [t |-> "err", msg |-> Malformed]
  ELSE [t |-> "str", v |-> <<>>]

DecodeChoices == {"throw", "empty"}

(* --------------------------- calls in flight --------------------------- *)

Undef == [t |-> "undef"]
Str(v) == [t |-> "str", v |-> v]
Err(msg) == [t |-> "err", msg |-> msg]

\* A call slot.  pc names the native call the async function awaits.
Idle ==
  [pc |-> "idle", op |-> "none", h |-> 1, key |-> <<>>, value |-> <<>>,
   cb |-> "none", ekv |-> Null, secretKey |-> Null, enc |-> NoCt,
   res |-> [t |-> "none"], cbCalls |-> <<>>,
   promise |-> [st |-> "pending", val |-> [t |-> "none"]]]

Settled(c) == c.pc = "done"
Quiet == \A q \in Procs : calls[q].pc \in {"idle", "done"}

\* What a callback that throws raises.
CbError == Err(<<"callback threw">>)

\* withCallback: r is what func() produced (a result, or Err for a throw).
\* A throw of callback(null, result) is caught by the same catch block,
\* which calls callback(err); a throw there rejects the promise.
withCallback(c, r) ==
  LET d == [c EXCEPT !.pc = "done", !.res = r]
  IN IF r.t # "err"
       THEN CASE c.cb = "none" ->
                   [d EXCEPT !.promise = [st |-> "resolved", val |-> r]]
              [] c.cb = "ok" ->
                   [d EXCEPT !.cbCalls = <<"ok">>,
                             !.promise = [st |-> "resolved", val |-> r]]
              [] OTHER ->
                   [d EXCEPT !.cbCalls = <<"ok", "err">>,
                             !.promise = [st |-> "rejected", val |-> CbError]]
       ELSE CASE c.cb = "none" ->
                   [d EXCEPT !.promise = [st |-> "rejected", val |-> r]]
              [] c.cb = "ok" ->
                   [d EXCEPT !.cbCalls = <<"err">>,
                             !.promise = [st |-> "resolved", val |-> Undef]]
              [] OTHER ->
                   [d EXCEPT !.cbCalls = <<"err">>,
                             !.promise = [st |-> "rejected", val |-> CbError]]

SettingItem(e) == <<"Error setting item">> \o e
GettingItem(e) == <<"Error getting item">> \o e
CouldNotDecrypt(e) == <<"Could not decrypt state">> \o e
GettingKey(e) == <<"Error getting encryption key">> \o e

\* getItemDecrypt with the catch block keeping the initial "{}" instead of
\* throwing.
getItemDecryptDefault(c, k, d) ==
  LET out == Decrypt(c.enc, k, d)
  IN IF out.t = "err" THEN Str(DefaultDecrypted) ELSE out

\* getItem, lines 105-114: decrypt under the key, decode, return the text;
\* a throw is wrapped twice.
getItemDecrypt(c, k, d) ==
  LET out == Decrypt(c.enc, k, d)
  IN IF out.t = "err" THEN Err(GettingItem(CouldNotDecrypt(out.msg))) ELSE out

\* The code that follows `await getEncryptionKey()` once it returned k.
UseKey(c, k, d) ==
  IF c.op = "setItem"
    THEN [c EXCEPT !.secretKey = k, !.enc = Encrypt(c.value, k), !.pc = "write"]
    ELSE withCallback([c EXCEPT !.secretKey = k], getItemDecrypt(c, k, d))

\* getEncryptionKey threw e (already prefixed): the caller's catch blocks.
KeyFailed(c, e) ==
  IF c.op = "setItem"
    THEN withCallback(c, Err(SettingItem(e)))
    ELSE withCallback(c, Err(GettingItem(CouldNotDecrypt(e))))

\* getEncryptionKey up to its first await: the cached key, or the read of
\* the secure store.
EnterKey(c, d) ==
  IF encryptionKey = Null THEN [c EXCEPT !.pc = "secget"]
  ELSE UseKey(c, encryptionKey, d)

\* written[h, k]: the value of the last setItem(k, v) of handle h that
\* succeeded and that no successful removeItem(k) followed (history).
WrittenAfter(c) ==
  IF Settled(c) /\ c.res.t # "err" /\ c.op = "setItem"
    THEN [written EXCEPT ![<<c.h, c.key>>] = Str(c.value)]
  ELSE IF Settled(c) /\ c.res.t # "err" /\ c.op = "removeItem"
    THEN [written EXCEPT ![<<c.h, c.key>>] = Undef]
  ELSE written

Commit(p, c) ==
  /\ calls' = [calls EXCEPT ![p] = c]
  /\ written' = WrittenAfter(c)

(* ------------------------------ actions ------------------------------- *)

Init ==
  /\ encryptionKey = Null
  /\ secret = Null
  /\ nextUuid = 0
  /\ dirs = {<<<<"d">>>>}          \* the document directory exists
  /\ files = <<>>
  /\ calls = [p \in Procs |-> Idle]
  /\ written = [hk \in Handles \X AllKeys |-> Undef]

FirstAwait(op) ==
  CASE op = "setItem" -> "stat"
    [] op = "getItem" -> "stat"
    [] op = "removeItem" -> "delete"
    [] OTHER -> "mkdir"

Inputs(Hs, Ks, Vs, Cbs) ==
  {[op |-> "setItem", h |-> h, key |-> k, value |-> v, cb |-> cb] :
     h \in Hs, k \in Ks, v \in Vs, cb \in Cbs}
  \cup {[op |-> o, h |-> h, key |-> k, value |-> <<>>, cb |-> cb] :
     o \in {"getItem", "removeItem"}, h \in Hs, k \in Ks, cb \in Cbs}
  \cup {[op |-> "getAllKeys", h |-> h, key |-> <<>>, value |-> <<>>, cb |-> cb] :
     h \in Hs, cb \in Cbs}

\* A caller invokes an operation: the code runs to its first await.  With
\* seq, callers wait for every earlier call to settle.
Invoke(p, In, seq) ==
  /\ calls[p].pc \in {"idle", "done"}
  /\ seq => Quiet
  /\ \E i \in In :
       calls' = [calls EXCEPT ![p] =
                   [Idle EXCEPT !.pc = FirstAwait(i.op), !.op = i.op, !.h = i.h,
                                !.key = i.key, !.value = i.value, !.cb = i.cb]]
  /\ UNCHANGED <<encryptionKey, secret, nextUuid, dirs, files, written>>

\* getInfoAsync completes (setItem line 74, getItem line 98).
StatDone(p, F) ==
  LET c == calls[p] IN
  /\ c.pc = "stat"
  /\ \E fail \in F, d \in DecodeChoices :
       Commit(p,
         IF c.op = "setItem"
           THEN IF fail THEN withCallback(c, Err(SettingItem(<<"getInfoAsync">>)))
                ELSE IF ~FsExists(baseFolder(c.h)) THEN [c EXCEPT !.pc = "mkdir"]
                ELSE EnterKey(c, d)
           ELSE IF fail THEN withCallback(c, Err(<<"getInfoAsync">>))
                ELSE IF FsExists(pathForKey(c.h, c.key)) THEN [c EXCEPT !.pc = "read"]
                ELSE withCallback(c, Undef))
  /\ UNCHANGED <<encryptionKey, secret, nextUuid, dirs, files>>

\* makeDirectoryAsync completes (setItem line 77, getAllKeys line 135).
MkdirDone(p, F) ==
  LET c == calls[p]
      raw == <<"makeDirectoryAsync">>
  IN
  /\ c.pc = "mkdir"
  /\ \E fail \in F, d \in DecodeChoices :
       IF fail \/ ~MkdirOk(baseFolder(c.h))
         THEN /\ Commit(p, withCallback(c,
                   IF c.op = "setItem" THEN Err(SettingItem(raw)) ELSE Err(raw)))
              /\ UNCHANGED dirs
         ELSE /\ dirs' = MkdirDirs(baseFolder(c.h))
              /\ Commit(p, IF c.op = "setItem" THEN EnterKey(c, d)
                           ELSE [c EXCEPT !.pc = "list"])
  /\ UNCHANGED <<encryptionKey, secret, nextUuid, files>>

\* readAsStringAsync completes (getItem line 103).
ReadDone(p, F) ==
  LET c == calls[p]
      path == pathForKey(c.h, c.key)
  IN
  /\ c.pc = "read"
  /\ \E fail \in F, d \in DecodeChoices :
       Commit(p,
         IF fail \/ ~ReadOk(path)
           THEN withCallback(c, Err(GettingItem(<<"readAsStringAsync">>)))
           ELSE EnterKey([c EXCEPT !.enc = ReadContent(path)], d))
  /\ UNCHANGED <<encryptionKey, secret, nextUuid, dirs, files>>

\* SecGetDone with setItem storing the value unencrypted when the read of
\* the secure store fails.
SecGetDoneWritingPlain(p, F) ==
  LET c == calls[p]
      path == pathForKey(c.h, c.key)
  IN
  /\ c.pc = "secget"
  /\ \E fail \in F, d \in DecodeChoices :
       IF fail
         THEN /\ Commit(p, KeyFailed(c, GettingKey(<<"getItemAsync">>)))
              /\ files' = IF c.op = "setItem" /\ WriteOk(path)
                             THEN WriteFiles(path, Encrypt(c.value, Null))
                           ELSE files
              /\ UNCHANGED <<encryptionKey, nextUuid>>
         ELSE /\ files' = files
              /\ IF secret = Null
                   THEN /\ nextUuid < MaxUuid
                        /\ nextUuid' = nextUuid + 1
                        /\ Commit(p, [c EXCEPT !.ekv = nextUuid + 1, !.pc = "secset"])
                        /\ UNCHANGED encryptionKey
                   ELSE /\ encryptionKey' = secret
                        /\ Commit(p, UseKey([c EXCEPT !.ekv = secret], secret, d))
                        /\ UNCHANGED nextUuid
  /\ UNCHANGED <<secret, dirs>>

\* SecureStore.getItemAsync completes (line 51): a stored secret is cached
\* and returned; otherwise a fresh uuid is generated and its write awaited.
SecGetDone(p, F) ==
  LET c == calls[p] IN
  /\ c.pc = "secget"
  /\ \E fail \in F, d \in DecodeChoices :
       IF fail
         THEN /\ Commit(p, KeyFailed(c, GettingKey(<<"getItemAsync">>)))
              /\ UNCHANGED <<encryptionKey, nextUuid>>
         ELSE IF secret = Null
           THEN /\ nextUuid < MaxUuid
                /\ nextUuid' = nextUuid + 1
                /\ Commit(p, [c EXCEPT !.ekv = nextUuid + 1, !.pc = "secset"])
                /\ UNCHANGED encryptionKey
           ELSE /\ encryptionKey' = secret
                /\ Commit(p, UseKey([c EXCEPT !.ekv = secret], secret, d))
                /\ UNCHANGED nextUuid
  /\ UNCHANGED <<secret, dirs, files>>

\* SecSetDone with the cache assigned before the write is awaited, so that
\* a failed write leaves the unpersisted value cached.
SecSetDoneCacheFirst(p, F) ==
  LET c == calls[p] IN
  /\ c.pc = "secset"
  /\ \E fail \in F, d \in DecodeChoices :
       IF fail
         THEN /\ Commit(p, KeyFailed(c, GettingKey(<<"setItemAsync">>)))
              /\ encryptionKey' = c.ekv
              /\ UNCHANGED secret
         ELSE /\ secret' = c.ekv
              /\ encryptionKey' = c.ekv
              /\ Commit(p, UseKey(c, c.ekv, d))
  /\ UNCHANGED <<nextUuid, dirs, files>>

\* SecureStore.setItemAsync completes (line 55): the generated value is
\* now persisted; it is cached and returned.
SecSetDone(p, F) ==
  LET c == calls[p] IN
  /\ c.pc = "secset"
  /\ \E fail \in F, d \in DecodeChoices :
       IF fail
         THEN /\ Commit(p, KeyFailed(c, GettingKey(<<"setItemAsync">>)))
              /\ UNCHANGED <<encryptionKey, secret>>
         ELSE /\ secret' = c.ekv
              /\ encryptionKey' = c.ekv
              /\ Commit(p, UseKey(c, c.ekv, d))
  /\ UNCHANGED <<nextUuid, dirs, files>>

\* writeAsStringAsync completes (setItem line 86).
WriteDone(p, F) ==
  LET c == calls[p]
      path == pathForKey(c.h, c.key)
  IN
  /\ c.pc = "write"
  /\ \E fail \in F :
       IF fail \/ ~WriteOk(path)
         THEN /\ Commit(p, withCallback(c, Err(SettingItem(<<"writeAsStringAsync">>))))
              /\ UNCHANGED files
         ELSE /\ files' = WriteFiles(path, c.enc)
              /\ Commit(p, withCallback(c, Undef))
  /\ UNCHANGED <<encryptionKey, secret, nextUuid, dirs>>

\* DeleteDone with removeItem also forgetting the cached key.
DeleteDoneClearingCache(p, F) ==
  LET c == calls[p]
      path == pathForKey(c.h, c.key)
  IN
  /\ c.pc = "delete"
  /\ \E fail \in F :
       IF fail
         THEN /\ Commit(p, withCallback(c, Err(<<"deleteAsync">>)))
              /\ UNCHANGED <<dirs, files>>
         ELSE /\ dirs' = DeleteDirs(path)
              /\ files' = DeleteFiles(path)
              /\ Commit(p, withCallback(c, Undef))
  /\ encryptionKey' = Null
  /\ UNCHANGED <<secret, nextUuid>>

\* deleteAsync completes (removeItem line 126).
DeleteDone(p, F) ==
  LET c == calls[p]
      path == pathForKey(c.h, c.key)
  IN
  /\ c.pc = "delete"
  /\ \E fail \in F :
       IF fail
         THEN /\ Commit(p, withCallback(c, Err(<<"deleteAsync">>)))
              /\ UNCHANGED <<dirs, files>>
         ELSE /\ dirs' = DeleteDirs(path)
              /\ files' = DeleteFiles(path)
              /\ Commit(p, withCallback(c, Undef))
  /\ UNCHANGED <<encryptionKey, secret, nextUuid>>

\* readDirectoryAsync completes (getAllKeys line 139); every name is
\* percent-decoded (line 140).
ListDone(p, F) ==
  LET c == calls[p]
      names == ReadDir(baseFolder(c.h))
  IN
  /\ c.pc = "list"
  /\ \E fail \in F :
       Commit(p, withCallback(c,
         IF fail \/ ~ReadDirOk(baseFolder(c.h)) THEN Err(<<"readDirectoryAsync">>)
         ELSE IF \E n \in names : ~decodeURIComponent(n).ok THEN Err(<<"URIError">>)
         ELSE [t |-> "keys", v |-> {decodeURIComponent(n).v : n \in names}]))
  /\ UNCHANGED <<encryptionKey, secret, nextUuid, dirs, files>>

\* The secret in the secure store is replaced from outside (key rotation,
\* tampering) between two calls; the files are left as they are.
Tamper ==
  /\ Quiet
  /\ secret # Null
  /\ nextUuid < MaxUuid
  /\ nextUuid' = nextUuid + 1
  /\ secret' = nextUuid + 1
  /\ UNCHANGED <<encryptionKey, dirs, files, calls, written>>

\* The process ends and a new one starts: the module is loaded again
\* (line 38), the calls in flight are gone, the stores persist.
Restart ==
  /\ encryptionKey' = Null
  /\ calls' = [p \in Procs |-> Idle]
  /\ UNCHANGED <<secret, nextUuid, dirs, files, written>>

Steps(p, F) ==
  \/ StatDone(p, F)
  \/ MkdirDone(p, F)
  \/ ReadDone(p, F)
  \/ SecGetDone(p, F)
  \/ SecSetDone(p, F)
  \/ WriteDone(p, F)
  \/ DeleteDone(p, F)
  \/ ListDone(p, F)

NoFault == {FALSE}
Fault == {FALSE, TRUE}

(* --------------------------- specifications --------------------------- *)

\* Calls overlap freely; the native calls do not fail.
ConcInputs == Inputs({1}, {KeyA, KeyB}, {Val1}, {"none"})
Next == \E p \in Procs : Invoke(p, ConcInputs, FALSE) \/ Steps(p, NoFault)
Spec == Init /\ [][Next]_vars

\* One call at a time; the native calls do not fail.
SeqKeys == {KeyA, KeyB, KeySlash, KeyEmpty, KeyDot, KeyDotDot}
SeqInputs == Inputs({1}, SeqKeys, {Val1, Val2}, {"none", "ok"})
NextSeq == Invoke(1, SeqInputs, TRUE) \/ Steps(1, NoFault)
SpecSeq == Init /\ [][NextSeq]_vars

\* One call at a time; native calls may fail and callbacks may throw.
FaultInputs == Inputs({1}, {KeyA, KeyEmpty}, {Val1, Val2}, {"none", "ok", "throws"})
NextFault == Invoke(1, FaultInputs, TRUE) \/ Steps(1, Fault)
SpecFault == Init /\ [][NextFault]_vars

\* One call at a time on either of two handles; the native calls do not fail.
TwoInputs == Inputs(Handles, {KeyA, KeyEmpty, KeyDotDot}, {Val1, Val2}, {"none"})
NextTwo == Invoke(1, TwoInputs, TRUE) \/ Steps(1, NoFault)
SpecTwo == Init /\ [][NextTwo]_vars

\* One call at a time, with secret replacement and process restarts.
EnvInputs == Inputs({1}, {KeyA, KeyB}, {Val1, Val2}, {"none"})
NextEnv == Invoke(1, EnvInputs, TRUE) \/ Steps(1, NoFault) \/ Tamper \/ Restart
SpecEnv == Init /\ [][NextEnv]_vars

(* ------------------------------- claims ------------------------------- *)

Present(h, k) == written[<<h, k>>].t = "str"

\* C1 (as claimed; SpecSeq).  A getItem(key) that settles yields the value
\* of the most recent successful setItem(key, v) that no removeItem(key)
\* followed.
C1_RoundTrip ==
  \A p \in Procs :
    LET c == calls[p] IN
    (Settled(c) /\ c.op = "getItem" /\ Present(c.h, c.key))
      => c.res = written[<<c.h, c.key>>]

\* C2 (as claimed; SpecSeq).  getItem of a key that was never written, or
\* was written and then removed, succeeds with undefined (callback form:
\* callback(null, undefined)), having read no file and obtained no key.
C2_NotFound ==
  \A p \in Procs :
    LET c == calls[p] IN
    (Settled(c) /\ c.op = "getItem" /\ ~Present(c.h, c.key))
      => /\ c.res = Undef
         /\ c.promise = [st |-> "resolved", val |-> Undef]
         /\ c.cb = "ok" => c.cbCalls = <<"ok">>
         /\ c.enc = NoCt /\ c.secretKey = Null

\* C3 (as claimed; SpecSeq).  Every removeItem succeeds, and a removeItem
\* of a key with no stored entry (the second of two in a row included)
\* leaves every stored entry as it was.
C3_RemoveIdempotent ==
  [][\A p \in Procs :
       (calls[p].pc = "delete" /\ Settled(calls'[p]))
         => /\ calls'[p].res = Undef
            /\ ~Present(calls[p].h, calls[p].key)
                 => files' = files]_vars

\* C4 (as claimed; SpecSeq).  getAllKeys succeeds with exactly the keys
\* that were set and not removed since (none: the empty collection).
C4_KeyEnumeration ==
  \A p \in Procs :
    LET c == calls[p] IN
    (Settled(c) /\ c.op = "getAllKeys")
      => /\ c.res.t = "keys"
         /\ c.res.v = {k \in AllKeys : Present(c.h, k)}

\* The names in handle h's folder that percent-decode to key k.
EntriesFor(h, k) ==
  {n \in ReadDir(baseFolder(h)) :
     decodeURIComponent(n).ok /\ decodeURIComponent(n).v = k}

\* C5 (as claimed; SpecSeq).  Keys are opaque: for every key, setItem
\* stores exactly one entry, whose name decodes to the key; getItem reads
\* it back; getAllKeys returns the key as it was given.
C5_OpaqueKeys ==
  \A p \in Procs :
    LET c == calls[p] IN
    /\ (Settled(c) /\ c.op = "setItem")
         => /\ c.res = Undef
            /\ Cardinality(EntriesFor(c.h, c.key)) = 1
            /\ ReadOk(pathForKey(c.h, c.key))
            /\ ReadContent(pathForKey(c.h, c.key)).pt = c.value
    /\ (Settled(c) /\ c.op = "getItem" /\ Present(c.h, c.key))
         => c.res = written[<<c.h, c.key>>]
    /\ (Settled(c) /\ c.op = "getAllKeys")
         => /\ c.res.t = "keys"
            /\ \A k \in AllKeys : Present(c.h, k) => k \in c.res.v

IsDecryptError(r) ==
  /\ r.t = "err"
  /\ Len(r.msg) >= 2
  /\ r.msg[1] = "Error getting item"
  /\ r.msg[2] = "Could not decrypt state"

\* Call p settles in this step as a getItem that read an entry while the
\* secure store holds another secret than the one the entry was
\* encrypted under.
ReadsAfterReplacement(p) ==
  /\ calls[p].op = "getItem" /\ ~Settled(calls[p]) /\ Settled(calls'[p])
  /\ calls'[p].enc # NoCt
  /\ secret # calls'[p].enc.k

C7_CallbackOnce ==
  \A p \in Procs :
    LET c == calls[p] IN
    c.cb # "none" =>
      IF Settled(c)
        THEN c.cbCalls = <<IF c.res.t = "err" THEN "err" ELSE "ok">>
        ELSE c.cbCalls = <<>>

\* C8 (as claimed; SpecFault).  With a callback the awaitable never
\* rejects: it resolves with the result, or without a value after the
\* callback was given the error.  Without a callback it resolves with the
\* result or rejects with the error.
C8_Awaitable ==
  \A p \in Procs :
    LET c == calls[p] IN
    Settled(c) =>
      IF c.cb # "none"
        THEN c.promise =
               [st |-> "resolved", val |-> IF c.res.t = "err" THEN Undef ELSE c.res]
        ELSE c.promise =
               [st |-> IF c.res.t = "err" THEN "rejected" ELSE "resolved",
                val |-> c.res]

\* C9 (as claimed; Spec).  Once a secret is in the secure store, no step of
\* the system writes another value to it.
C9_SecretWrittenOnce == [][secret # Null => secret' = secret]_vars

\* C10 (as claimed; Spec).  Once the cache holds a key it never changes,
\* and a key request made from then on returns the cached key without a
\* read or a write of the secure store.
C10_CacheStable ==
  [][encryptionKey # Null =>
       /\ encryptionKey' = encryptionKey
       /\ \A p \in Procs :
            (calls[p].pc \in {"stat", "mkdir", "read"}
               /\ calls'[p].pc \notin {"stat", "mkdir", "read", "list"})
              => /\ calls'[p].pc # "secget"
                 /\ secret' = secret
                 /\ calls'[p].secretKey \in {Null, encryptionKey}]_vars

\* The message of a failed key initialisation, as the operation rethrows it.
KeyErrorOf(c, native) ==
  IF c.op = "setItem"
    THEN Err(<<"Error setting item", "Error getting encryption key", native>>)
    ELSE Err(<<"Error getting item", "Could not decrypt state",
               "Error getting encryption key", native>>)

RECURSIVE NodeIn(_, _, _)
NodeIn(ds, segs, acc) ==
  IF segs = <<>> THEN acc
  ELSE IF Head(segs) = <<>> \/ Head(segs) = <<".">> THEN NodeIn(ds, Tail(segs), acc)
  ELSE IF Head(segs) = <<".", ".">>
    THEN IF ~(acc = <<>> \/ acc \in ds) THEN NoNode
         ELSE NodeIn(ds, Tail(segs),
                     IF acc = <<>> THEN acc ELSE SubSeq(acc, 1, Len(acc) - 1))
  ELSE NodeIn(ds, Tail(segs), Append(acc, Head(segs)))

\* What getItem(k) on handle h finds on the disk (ds, fs): nothing, the
\* plaintext stored in the entry, or a node that cannot be read as a file.
EntryView(ds, fs, h, k) ==
  LET n == NodeIn(ds, Split(pathForKey(h, k)), <<>>)
  IN IF n \in DOMAIN fs THEN Str(fs[n].pt)
     ELSE IF n = <<>> \/ n \in ds THEN Err(<<"Error getting item", "readAsStringAsync">>)
     ELSE Undef

\* The names getAllKeys() on handle h lists on the disk (ds, fs).
NamesView(ds, fs, h) ==
  LET n == NodeIn(ds, Split(baseFolder(h)), <<>>)
  IN {q[Len(q)] : q \in {e \in ds \cup DOMAIN fs :
                           Len(e) = Len(n) + 1 /\ IsPrefix(n, e)}}

\* The keys whose path is a child of the base folder.
OrdinaryKeys == {KeyA, KeyB, KeySlash, KeyQuery}

HandleView(ds, fs, h) ==
  [entries |-> [k \in OrdinaryKeys |-> EntryView(ds, fs, h, k)],
   names |-> NamesView(ds, fs, h)]

NoCallOf(h) == \A p \in Procs : calls[p].pc = "idle" \/ calls[p].h # h

\* C12 (as claimed; SpecTwo).  Handles with different base folders are
\* isolated: a step of a call on one handle changes nothing that getItem
\* (of a key such as "a" or "a/b") or getAllKeys on the other handle would
\* return; and every stored entry is encrypted under the one cached key.
C12_HandlesIsolated ==
  [][/\ \A h \in Handles :
          NoCallOf(h) => HandleView(dirs', files', h) = HandleView(dirs, files, h)
     /\ \A f \in DOMAIN files' : files'[f].k = encryptionKey']_vars

\* The prefixes that name an operation or one of its stages.
OperationPrefixes ==
  {"Error setting item", "Error getting item", "Could not decrypt state",
   "Error getting encryption key"}

\* C13 (as claimed; SpecFault).  Every failure of a native call inside an
\* operation reaches the caller wrapped: the error a settled call threw
\* starts with one of the operation prefixes, never with the name of the
\* native call that failed.
C13_FailuresWrapped ==
  \A p \in Procs :
    LET c == calls[p] IN
    (Settled(c) /\ c.res.t = "err") => Head(c.res.msg) \in OperationPrefixes

\* C14 (as claimed; Spec).  A getItem(key) that runs while removeItem(key)
\* runs on the same handle settles with a stored value or undefined: no
\* native call fails in Spec, so a failed read means the file had gone,
\* and that absence is never what getItem throws.
C14_AbsenceNeverAnError ==
  \A p \in Procs :
    LET c == calls[p] IN
    (Settled(c) /\ c.op = "getItem")
      => c.res # Err(GettingItem(<<"readAsStringAsync">>))

\* A step of call p that belongs to removeItem, to getAllKeys, or to a
\* getItem whose entry is missing (the stat finds nothing, or the file has
\* gone when it is read).
KeylessStep(p) ==
  LET c == calls[p]
      path == pathForKey(c.h, c.key)
  IN /\ calls'[p] # c
     /\ \/ calls'[p].op \in {"removeItem", "getAllKeys"}
        \/ c.op = "getItem" /\ c.pc = "stat" /\ ~FsExists(path)
        \/ c.op = "getItem" /\ c.pc = "read" /\ ~ReadOk(path)

\* C15 (SpecFault).  removeItem, getAllKeys and getItem of a missing key
\* never use the key manager: none of their steps awaits a read or a write
\* of the secure store, and each leaves the stored secret, the cached key
\* and the uuid generator as they were.
C15_KeyManagerUntouched ==
  [][\A p \in Procs :
       KeylessStep(p)
         => /\ calls'[p].pc \notin {"secget", "secset"}
            /\ calls'[p].ekv = Null /\ calls'[p].secretKey = Null
            /\ secret' = secret
            /\ encryptionKey' = encryptionKey
            /\ nextUuid' = nextUuid]_vars

\* A removeItem has completed while a key is cached and persisted.
C15_Witness ==
  \E p \in Procs :
    /\ Settled(calls[p]) /\ calls[p].op = "removeItem" /\ calls[p].res = Undef
    /\ encryptionKey # Null /\ secret = encryptionKey

\* C16 (SpecSeq).  A setItem(key, value) ensures the base folder before it
\* writes, and its only effects on the disk are the creation of the base
\* folder (with its missing ancestors) and the write of the one file for
\* key, a direct child of the base folder: every other file is as it was,
\* and so is what getItem finds for every other key of the handle.
C16_SetItemFrame ==
  [][\A p \in Procs :
       LET c == calls[p]
           base == FsNode(baseFolder(c.h))
           n == FsNode(pathForKey(c.h, c.key))
       IN
       (c.op = "setItem" /\ c.pc \notin {"idle", "done"} /\ calls'[p] # c)
         => /\ c.pc = "stat"
                 => /\ dirs' = dirs /\ files' = files
                    /\ (base \notin dirs /\ ~Settled(calls'[p]))
                         => calls'[p].pc = "mkdir"
            /\ c.pc = "mkdir"
                 => /\ files' = files
                    /\ dirs \subseteq dirs' /\ dirs' \subseteq dirs \cup Prefixes(base)
                    /\ ~Settled(calls'[p]) => base \in dirs'
            /\ c.pc \in {"secget", "secset"} => dirs' = dirs /\ files' = files
            /\ c.pc = "write"
                 => /\ dirs' = dirs
                    /\ calls'[p].res.t = "err" => files' = files
                    /\ calls'[p].res = Undef
                         => /\ base \in dirs /\ Parent(n) = base
                            /\ DOMAIN files' = DOMAIN files \cup {n}
                            /\ files'[n] = Encrypt(c.value, c.secretKey)
                            /\ \A f \in DOMAIN files \ {n} : files'[f] = files[f]
                            /\ \A k \in AllKeys \ {c.key} :
                                 EntryView(dirs', files', c.h, k)
                                   = EntryView(dirs, files, c.h, k)]_vars

\* setItem("a", v) has succeeded while the entry of "b" is on the disk.
C16_Witness ==
  \E p \in Procs :
    LET c == calls[p] IN
    /\ Settled(c) /\ c.op = "setItem" /\ c.res = Undef /\ c.key = KeyA
    /\ ReadOk(pathForKey(c.h, KeyA))
    /\ ReadContent(pathForKey(c.h, KeyA)).pt = c.value
    /\ ReadOk(pathForKey(c.h, KeyB))
    /\ ReadContent(pathForKey(c.h, KeyB)).pt # c.value

\* C17 (as claimed; SpecSeq).  removeItem(key) deletes only the file for
\* key, whatever the key: when its delete completes the base folder is
\* still there if it was, and what getItem finds for every other key that
\* had an entry is the same as before.
C17_RemoveOnlyOwnFile ==
  [][\A p \in Procs :
       LET c == calls[p]
           base == FsNode(baseFolder(c.h))
       IN
       (c.op = "removeItem" /\ c.pc = "delete" /\ Settled(calls'[p]))
         => /\ base \in dirs => base \in dirs'
            /\ \A k \in AllKeys \ {c.key} :
                 EntryView(dirs, files, c.h, k).t = "str"
                   => EntryView(dirs', files', c.h, k)
                        = EntryView(dirs, files, c.h, k)]_vars

\* The encoded file name of key k on handle h, when pathForKey(h, k) is a
\* direct child of the base folder.
IsChildOfBase(h, k) ==
  LET base == Split(baseFolder(h))
      path == Split(pathForKey(h, k))
  IN /\ Len(path) = Len(base) + 1
     /\ SubSeq(path, 1, Len(base)) = base
     /\ path[Len(path)] \notin {<<>>, <<".">>, <<".", ".">>}

\* C18 (as claimed; SpecSeq).  pathForKey is injective and stays inside the
\* handle: the path of the key of every call is a direct child of the base
\* folder (not the base folder, not a path outside it), and no other key
\* has the same path.
C18_PathInjectiveInside ==
  \A p \in Procs :
    LET c == calls[p] IN
    c.op \in {"setItem", "getItem", "removeItem"}
      => /\ IsChildOfBase(c.h, c.key)
         /\ \A k \in AllKeys \ {c.key} :
              pathForKey(c.h, k) # pathForKey(c.h, c.key)

\* C19 (as claimed; Spec).  Round trip after concurrent first use: when
\* two setItem calls for different keys have both succeeded and nothing is
\* in flight, the entry of each is the written value encrypted under the
\* key the cache holds, which is the key a getItem will decrypt with.
C19_ConcurrentFirstUse ==
  \A p, q \in Procs :
    LET c == calls[p]
        e == calls[q]
        path == pathForKey(c.h, c.key)
    IN
    (/\ Quiet /\ p # q
     /\ c.op = "setItem" /\ c.res = Undef
     /\ e.op = "setItem" /\ e.res = Undef
     /\ c.key # e.key
     /\ ReadOk(path))
      => ReadContent(path) = Encrypt(c.value, encryptionKey)

\* C20 (SpecFault).  A setItem that fails at the stat, at the directory
\* creation or at the key acquisition leaves the entry of its key as it
\* was: none of its steps up to there writes or removes a file or removes
\* a directory, a stored value is still what getItem finds, a key without
\* a file still has none, and the failing step leaves the stored secret
\* and the cached key, which decrypt the entry, unchanged.
C20_FailedSetItemKeepsEntry ==
  [][\A p \in Procs :
       LET c == calls[p]
           n == FsNode(pathForKey(c.h, c.key))
       IN
       (c.op = "setItem" /\ c.pc \in {"stat", "mkdir", "secget", "secset"}
          /\ calls'[p] # c)
         => /\ files' = files
            /\ dirs \subseteq dirs'
            /\ n \in DOMAIN files
                 => EntryView(dirs', files', c.h, c.key) = Str(files[n].pt)
            /\ n \notin DOMAIN files => n \notin DOMAIN files'
            /\ (Settled(calls'[p]) /\ calls'[p].res.t = "err")
                 => secret' = secret /\ encryptionKey' = encryptionKey]_vars

\* setItem("a", v) has failed at its stat while another value is stored
\* under "a" and its key is cached.
C20_Witness ==
  \E p \in Procs :
    LET c == calls[p]
        path == pathForKey(c.h, c.key)
    IN
    /\ Settled(c) /\ c.op = "setItem" /\ c.key = KeyA
    /\ c.res = Err(SettingItem(<<"getInfoAsync">>))
    /\ ReadOk(path)
    /\ ReadContent(path).pt # c.value
    /\ ReadContent(path).k = encryptionKey

====
